---- MODULE Spec2Model ----
(***************************************************************************)
(* SnapshotStore (src/atm_core/snapshot_store.py): a content-addressed     *)
(* blob directory plus an sqlite index (tables snapshots and tool_ledger). *)
(* Each caller thread runs one operation at a time; an operation is cut    *)
(* into the steps between which another caller, or a failure, can fall.    *)
(***************************************************************************)
EXTENDS Integers, Sequences, FiniteSets, TLC

\* ---------------------------------------------------------------- bounds
MaxCalls == 2      \* snapshot() calls started in one run
MaxLedger == 2     \* longest tool_ledger of an input state

\* ---------------------------------------------------------------- values
NoneVal == "None"      \* None in a text column
NoneId == 0            \* None where a snapshot id is expected

Procs == {1, 2, 3}      \* caller threads
Writers == {1, 2}       \* the callers that run snapshot() side by side
Readers == {3}          \* the caller that reads meanwhile
SeqProcs == {1}         \* the single caller of a sequential run

Ids == {1, 2}           \* the values uuid.uuid4() can give
Times == {1, 2}         \* the readings time.time() can give
Parents == {NoneId, 1}  \* parent_snapshot_id arguments: none, or an id that may not exist

\* Serialized texts as sequences of code points:  1<space>  and  "e-acute"
Texts == { <<49, 32>>, <<34, 233, 34>> }

Entry1 == [name |-> "search", in_hash |-> "i1", out_hash |-> "o1", status |-> "ok",
           latency_ms |-> 120, url |-> "http://a", created_at |-> 1]
Entry2 == [name |-> "fetch", in_hash |-> "i2", out_hash |-> "o2", status |-> "error",
           latency_ms |-> 7, url |-> NoneVal, created_at |-> 2]
\* The tool calls of a run, in the order they were made; a state carries the
\* first n of them.
ToolCall(k) == IF k % 2 = 1 THEN Entry1 ELSE Entry2

Ledgers == { [k \in 1..n |-> ToolCall(k)] : n \in 0..MaxLedger }

\* An AgentState as far as the store uses it: to_json() and tool_ledger.
AgentStates == [json : Texts, tool_ledger : Ledgers]

\* ---------------------------------------------------------------- pure functions
to_json(state) == state.json

RECURSIVE sha256_text(_)
\* A collision-free digest of a text: its code points read as a base-1024 numeral.
sha256_text(text) ==
    IF text = <<>> THEN 0
    ELSE sha256_text(SubSeq(text, 1, Len(text) - 1)) * 1024 + text[Len(text)]

RECURSIVE Utf8Encode(_)
\* str.encode("utf-8"): one byte below 128, two bytes below 2048
Utf8Encode(text) ==
    IF text = <<>> THEN <<>>
    ELSE (IF text[1] < 128 THEN <<text[1]>>
          ELSE <<192 + (text[1] \div 64), 128 + (text[1] % 64)>>)
         \o Utf8Encode(Tail(text))

IsCont(b) == b >= 128 /\ b < 192
IsLead2(b) == b >= 194 /\ b < 224

RECURSIVE Utf8Valid(_)
Utf8Valid(bytes) ==
    IF bytes = <<>> THEN TRUE
    ELSE IF bytes[1] < 128 THEN Utf8Valid(Tail(bytes))
    ELSE IF IsLead2(bytes[1]) /\ Len(bytes) >= 2 /\ IsCont(bytes[2])
         THEN Utf8Valid(Tail(Tail(bytes)))
    ELSE FALSE

RECURSIVE Utf8DecodeIgnore(_)
\* bytes.decode("utf-8", errors="ignore"): undecodable bytes are dropped
Utf8DecodeIgnore(bytes) ==
    IF bytes = <<>> THEN <<>>
    ELSE IF bytes[1] < 128 THEN <<bytes[1]>> \o Utf8DecodeIgnore(Tail(bytes))
    ELSE IF IsLead2(bytes[1]) /\ Len(bytes) >= 2 /\ IsCont(bytes[2])
         THEN <<(bytes[1] - 192) * 64 + (bytes[2] - 128)>>
              \o Utf8DecodeIgnore(Tail(Tail(bytes)))
    ELSE Utf8DecodeIgnore(Tail(bytes))

Err(kind) == [kind |-> kind, val |-> NoneId]
ErrAbout(kind, id) == [kind |-> kind, val |-> id]
Ok(v) == [kind |-> "ok", val |-> v]
IsOk(r) == r.kind = "ok"

\* bytes.decode("utf-8"): strict
Utf8Decode(bytes) ==
    IF Utf8Valid(bytes) THEN Ok(Utf8DecodeIgnore(bytes))
    ELSE Err("UnicodeDecodeError")

IsSpace(c) == c = 32
IsDigit(c) == c >= 48 /\ c <= 57

RECURSIVE Strip(_)
Strip(text) ==
    IF text = <<>> THEN <<>>
    ELSE IF IsSpace(text[1]) THEN Strip(Tail(text))
    ELSE IF IsSpace(text[Len(text)]) THEN Strip(SubSeq(text, 1, Len(text) - 1))
    ELSE text

RECURSIVE DigitsValue(_)
DigitsValue(ds) ==
    IF ds = <<>> THEN 0
    ELSE DigitsValue(SubSeq(ds, 1, Len(ds) - 1)) * 10 + (ds[Len(ds)] - 48)

\* json.loads on the documents of Texts: surrounding whitespace is skipped, a run
\* of digits is a number, a quoted run is a string; anything else is an error.
json_loads(text) ==
    LET t == Strip(text) IN
    IF t # <<>> /\ \A k \in 1..Len(t) : IsDigit(t[k])
        THEN Ok([type |-> "int", v |-> DigitsValue(t)])
    ELSE IF Len(t) >= 2 /\ t[1] = 34 /\ t[Len(t)] = 34
            /\ \A k \in 2..(Len(t) - 1) : t[k] # 34
        THEN Ok([type |-> "str", v |-> SubSeq(t, 2, Len(t) - 1)])
    ELSE Err("JSONDecodeError")

\* ---------------------------------------------------------------- blob files
\* A blob file is the sequence of cells written to it: cell 1 the compressed
\* payload, cell 2 the gzip trailer.  Each writer writes at its own offset.
Hole == [kind |-> "hole", bytes |-> <<>>]
Trailer == [kind |-> "trailer", bytes |-> <<>>]
Payload(data) == [kind |-> "payload", bytes |-> data]

WriteCell(file, pos, cell) ==
    [k \in 1..(IF Len(file) > pos THEN Len(file) ELSE pos) |->
        IF k = pos THEN cell
        ELSE IF k <= Len(file) THEN file[k] ELSE Hole]

IsWholeGzip(file) ==
    Len(file) = 2 /\ file[1].kind = "payload" /\ file[2].kind = "trailer"

\* ---------------------------------------------------------------- state
VARIABLES
    snapshots,     \* committed rows of table snapshots, in insertion order
    tool_ledger,   \* committed rows of table tool_ledger, in insertion order
    blobs,         \* blob directory: digest -> file content, for the files that exist
    pc,            \* per caller: the step its current operation is at
    frame,         \* per caller: arguments, locals, open transaction, return value
    calls          \* snapshot() calls started so far

vars == <<snapshots, tool_ledger, blobs, pc, frame, calls>>

NoState == [json |-> <<>>, tool_ledger |-> <<>>]
NoRet == [kind |-> "none", val |-> NoneId]

IdleFrame ==
    [op |-> "none", state |-> NoState, parent |-> NoneId, state_hash |-> 0,
     data |-> <<>>, h |-> 0, snap_id |-> NoneId, created_at |-> 0,
     opened |-> FALSE, pend |-> <<>>, ret |-> NoRet]

\* What stays of a call once it is over: its argument, its return value (or error)
\* and, of snapshot(), the id and blob digest it worked with.
Returned(f, ret) ==
    [IdleFrame EXCEPT !.op = f.op, !.state = f.state, !.parent = f.parent, !.h = f.h,
                      !.opened = f.opened, !.snap_id = f.snap_id, !.ret = ret]
Raised(f, err) ==
    [IdleFrame EXCEPT !.op = f.op, !.h = f.h, !.opened = f.opened,
                      !.snap_id = f.snap_id, !.ret = err]

\* Variant: a parent that has no row is stored as None
SnapshotRowCheckedParent(f) ==
    [snapshot_id |-> f.snap_id,
     parent_snapshot_id |->
         IF \E k \in 1..Len(snapshots) : snapshots[k].snapshot_id = f.parent
         THEN f.parent ELSE NoneId,
     state_hash |-> f.state_hash, state_blob_hash |-> f.h, created_at |-> f.created_at]

\* The snapshots row of a caller's INSERT (lines 57-58)
SnapshotRow(f) ==
    [snapshot_id |-> f.snap_id, parent_snapshot_id |-> f.parent,
     state_hash |-> f.state_hash, state_blob_hash |-> f.h, created_at |-> f.created_at]

\* Variant: in_hash and out_hash bound to each other's column
LedgerRowSwapped(id, snap_id, tc) ==
    [id |-> id, snapshot_id |-> snap_id, name |-> tc.name, in_hash |-> tc.out_hash,
     out_hash |-> tc.in_hash, status |-> tc.status, latency_ms |-> tc.latency_ms,
     url |-> tc.url, created_at |-> tc.created_at]

\* The tool_ledger row of one tool call (lines 61-62); id is the AUTOINCREMENT key
LedgerRow(id, snap_id, tc) ==
    [id |-> id, snapshot_id |-> snap_id, name |-> tc.name, in_hash |-> tc.in_hash,
     out_hash |-> tc.out_hash, status |-> tc.status, latency_ms |-> tc.latency_ms,
     url |-> tc.url, created_at |-> tc.created_at]

RowIds == { snapshots[k].snapshot_id : k \in 1..Len(snapshots) }
RowOf(id) == snapshots[CHOOSE k \in 1..Len(snapshots) : snapshots[k].snapshot_id = id]

\* A caller holds the index's write lock from its first INSERT to its commit.
HoldsWriteLock(p) == pc[p] = "ledger"
WriteLockFree(p) == \A q \in Procs \ {p} : ~HoldsWriteLock(q)

Init ==
    /\ snapshots = <<>>
    /\ tool_ledger = <<>>
    /\ blobs = <<>>
    /\ pc = [p \in Procs |-> "idle"]
    /\ frame = [p \in Procs |-> IdleFrame]
    /\ calls = 0

\* ---------------------------------------------------------------- snapshot()
\* lines 50-53, 37-39: serialize, hash, encode, blob digest and path
\* Variant: the blob digest taken over the bytes decoded as ASCII, errors ignored
SnapshotCallAsciiDigest(p, state, parent) ==
    /\ pc[p] = "idle"
    /\ calls < MaxCalls
    /\ calls' = calls + 1
    /\ LET state_json == to_json(state)
           data == Utf8Encode(state_json)
       IN frame' = [frame EXCEPT ![p] =
              [IdleFrame EXCEPT !.op = "snapshot", !.state = state, !.parent = parent,
                                !.state_hash = sha256_text(state_json),
                                !.data = data,
                                !.h = sha256_text(SelectSeq(data, LAMBDA b : b < 128))]]
    /\ pc' = [pc EXCEPT ![p] = "exists"]
    /\ UNCHANGED <<snapshots, tool_ledger, blobs>>

SnapshotCall(p, state, parent) ==
    /\ pc[p] = "idle"
    /\ calls < MaxCalls
    /\ calls' = calls + 1
    /\ LET state_json == to_json(state)
           data == Utf8Encode(state_json)
       IN frame' = [frame EXCEPT ![p] =
              [IdleFrame EXCEPT !.op = "snapshot", !.state = state, !.parent = parent,
                                !.state_hash = sha256_text(state_json),
                                !.data = data,
                                !.h = sha256_text(Utf8DecodeIgnore(data))]]
    /\ pc' = [pc EXCEPT ![p] = "exists"]
    /\ UNCHANGED <<snapshots, tool_ledger, blobs>>

\* Variant: the test of line 40 without its "not"
BlobExistsInverted(p) ==
    /\ pc[p] = "exists"
    /\ pc' = [pc EXCEPT ![p] =
                 IF frame[p].h \in DOMAIN blobs THEN "open" ELSE "insert"]
    /\ UNCHANGED <<snapshots, tool_ledger, blobs, frame, calls>>

\* Variant: no test at line 40, the blob is written on every call
BlobExistsAlwaysWrite(p) ==
    /\ pc[p] = "exists"
    /\ pc' = [pc EXCEPT ![p] = "open"]
    /\ UNCHANGED <<snapshots, tool_ledger, blobs, frame, calls>>

\* line 40: if not os.path.exists(path)
BlobExists(p) ==
    /\ pc[p] = "exists"
    /\ pc' = [pc EXCEPT ![p] =
                 IF frame[p].h \in DOMAIN blobs THEN "insert" ELSE "open"]
    /\ UNCHANGED <<snapshots, tool_ledger, blobs, frame, calls>>

\* line 41: gzip.open(path, "wb") creates the file, or truncates the one there
BlobOpen(p) ==
    /\ pc[p] = "open"
    /\ blobs' = (frame[p].h :> <<>>) @@ blobs
    /\ frame' = [frame EXCEPT ![p].opened = TRUE]
    /\ pc' = [pc EXCEPT ![p] = "write"]
    /\ UNCHANGED <<snapshots, tool_ledger, calls>>

\* line 42: f.write(data)
BlobWrite(p) ==
    /\ pc[p] = "write"
    /\ blobs' = [blobs EXCEPT ![frame[p].h] = WriteCell(@, 1, Payload(frame[p].data))]
    /\ pc' = [pc EXCEPT ![p] = "close"]
    /\ UNCHANGED <<snapshots, tool_ledger, frame, calls>>

\* line 41, leaving the with block: close() writes the gzip trailer
BlobClose(p) ==
    /\ pc[p] = "close"
    /\ blobs' = [blobs EXCEPT ![frame[p].h] = WriteCell(@, 2, Trailer)]
    /\ pc' = [pc EXCEPT ![p] = "insert"]
    /\ UNCHANGED <<snapshots, tool_ledger, frame, calls>>

\* Variant: snapshot_id without its PRIMARY KEY
InsertSnapshotNoKey(p, id, now) ==
    /\ pc[p] = "insert"
    /\ WriteLockFree(p)
    /\ frame' = [frame EXCEPT ![p].snap_id = id, ![p].created_at = now]
    /\ pc' = [pc EXCEPT ![p] = "ledger"]
    /\ UNCHANGED <<snapshots, tool_ledger, blobs, calls>>

\* lines 54-58: fresh id, clock reading, INSERT INTO snapshots.  The INSERT takes
\* the write lock; snapshot_id is the PRIMARY KEY, so a taken id is refused.
InsertSnapshot(p, id, now) ==
    /\ pc[p] = "insert"
    /\ WriteLockFree(p)
    /\ IF id \in RowIds
       THEN /\ frame' = [frame EXCEPT ![p] = Raised(@, ErrAbout("IntegrityError", id))]
            /\ pc' = [pc EXCEPT ![p] = "idle"]
       ELSE /\ frame' = [frame EXCEPT ![p].snap_id = id, ![p].created_at = now]
            /\ pc' = [pc EXCEPT ![p] = "ledger"]
    /\ UNCHANGED <<snapshots, tool_ledger, blobs, calls>>

\* lines 57-58 while another connection holds the write lock: sqlite gives up
\* after its busy timeout with OperationalError("database is locked")
InsertBusy(p) ==
    /\ pc[p] = "insert"
    /\ ~WriteLockFree(p)
    /\ frame' = [frame EXCEPT ![p] = Raised(@, Err("OperationalError"))]
    /\ pc' = [pc EXCEPT ![p] = "idle"]
    /\ UNCHANGED <<snapshots, tool_ledger, blobs, calls>>

\* Variant: a connection in autocommit mode, each INSERT visible at once
InsertLedgerAutocommit(p) ==
    /\ pc[p] = "ledger"
    /\ Len(frame[p].pend) < Len(frame[p].state.tool_ledger)
    /\ LET k == Len(frame[p].pend) + 1
           row == LedgerRow(Len(tool_ledger) + 1, frame[p].snap_id,
                            frame[p].state.tool_ledger[k])
       IN /\ frame' = [frame EXCEPT ![p].pend = Append(@, row)]
          /\ tool_ledger' = Append(tool_ledger, row)
    /\ UNCHANGED <<snapshots, blobs, pc, calls>>

\* lines 60-62: one turn of the loop, INSERT INTO tool_ledger inside the transaction
InsertLedger(p) ==
    /\ pc[p] = "ledger"
    /\ Len(frame[p].pend) < Len(frame[p].state.tool_ledger)
    /\ LET k == Len(frame[p].pend) + 1
           row == LedgerRow(Len(tool_ledger) + k, frame[p].snap_id,
                            frame[p].state.tool_ledger[k])
       IN frame' = [frame EXCEPT ![p].pend = Append(@, row)]
    /\ UNCHANGED <<snapshots, tool_ledger, blobs, pc, calls>>

\* lines 63-65: commit makes the snapshot row and the ledger rows visible at once
\* Variant: a ledger row equal to a stored one, but for its ids, is not stored again
CommitDedup(p) ==
    /\ pc[p] = "ledger"
    /\ Len(frame[p].pend) = Len(frame[p].state.tool_ledger)
    /\ snapshots' = Append(snapshots, SnapshotRow(frame[p]))
    /\ tool_ledger' = tool_ledger \o
           SelectSeq(frame[p].pend,
                     LAMBDA row : \A i \in 1..Len(tool_ledger) :
                         [tool_ledger[i] EXCEPT !.id = 0, !.snapshot_id = 0]
                             # [row EXCEPT !.id = 0, !.snapshot_id = 0])
    /\ frame' = [frame EXCEPT ![p] = Returned(@, Ok(frame[p].snap_id))]
    /\ pc' = [pc EXCEPT ![p] = "idle"]
    /\ UNCHANGED <<blobs, calls>>

Commit(p) ==
    /\ pc[p] = "ledger"
    /\ Len(frame[p].pend) = Len(frame[p].state.tool_ledger)
    /\ snapshots' = Append(snapshots, SnapshotRow(frame[p]))
    /\ tool_ledger' = tool_ledger \o frame[p].pend
    /\ frame' = [frame EXCEPT ![p] = Returned(@, Ok(frame[p].snap_id))]
    /\ pc' = [pc EXCEPT ![p] = "idle"]
    /\ UNCHANGED <<blobs, calls>>

\* snapshot() cut short between two of its steps (an I/O error, a kill): the open
\* transaction is rolled back, whatever reached the blob directory stays.
InSnapshot(p) == pc[p] \in {"exists", "open", "write", "close", "insert", "ledger"}

\* Variant: the connection is committed on the way out of a failed call
FailCommitsPending(p) ==
    /\ InSnapshot(p)
    /\ snapshots' = IF pc[p] = "ledger" THEN Append(snapshots, SnapshotRow(frame[p]))
                                        ELSE snapshots
    /\ tool_ledger' = tool_ledger \o frame[p].pend
    /\ frame' = [frame EXCEPT ![p] = Raised(@, Err("IOFailure"))]
    /\ pc' = [pc EXCEPT ![p] = "idle"]
    /\ UNCHANGED <<blobs, calls>>

Fail(p) ==
    /\ InSnapshot(p)
    /\ frame' = [frame EXCEPT ![p] = Raised(@, Err("IOFailure"))]
    /\ pc' = [pc EXCEPT ![p] = "idle"]
    /\ UNCHANGED <<snapshots, tool_ledger, blobs, calls>>

\* ---------------------------------------------------------------- get()
\* lines 45-48: gzip.open(path, "rb").read()
read_blob(h) ==
    IF h \notin DOMAIN blobs THEN Err("FileNotFoundError")
    ELSE IF ~IsWholeGzip(blobs[h]) THEN Err("BadGzipFile")
    ELSE Ok(blobs[h][1].bytes)

\* line 77: json.loads(data.decode("utf-8"))
Deserialize(read) ==
    IF ~IsOk(read) THEN read
    ELSE IF ~IsOk(Utf8Decode(read.val)) THEN Utf8Decode(read.val)
    ELSE json_loads(Utf8Decode(read.val).val)

\* Variant: no "if not row" test, a missing row read as an empty digest
GetLookupUnchecked(p, snapshot_id) ==
    /\ pc[p] = "idle"
    /\ frame' = [frame EXCEPT ![p] =
           [IdleFrame EXCEPT !.op = "get", !.snap_id = snapshot_id,
                             !.h = IF snapshot_id \in RowIds
                                   THEN RowOf(snapshot_id).state_blob_hash ELSE 0]]
    /\ pc' = [pc EXCEPT ![p] = "read"]
    /\ UNCHANGED <<snapshots, tool_ledger, blobs, calls>>

\* lines 68-75: the index lookup; KeyError when there is no row
GetLookup(p, snapshot_id) ==
    /\ pc[p] = "idle"
    /\ IF snapshot_id \in RowIds
       THEN /\ frame' = [frame EXCEPT ![p] =
                   [IdleFrame EXCEPT !.op = "get", !.snap_id = snapshot_id,
                                     !.h = RowOf(snapshot_id).state_blob_hash]]
            /\ pc' = [pc EXCEPT ![p] = "read"]
       ELSE /\ frame' = [frame EXCEPT ![p] =
                   [IdleFrame EXCEPT !.op = "get", !.snap_id = snapshot_id,
                                     !.ret = ErrAbout("KeyError", snapshot_id)]]
            /\ pc' = pc
    /\ UNCHANGED <<snapshots, tool_ledger, blobs, calls>>

\* lines 76-77
\* Variant: a blob that cannot be decompressed is removed by the read
GetReadEvicting(p) ==
    /\ pc[p] = "read"
    /\ frame' = [frame EXCEPT ![p].ret = Deserialize(read_blob(frame[p].h))]
    /\ pc' = [pc EXCEPT ![p] = "idle"]
    /\ blobs' = IF read_blob(frame[p].h).kind = "BadGzipFile"
                THEN [h \in DOMAIN blobs \ {frame[p].h} |-> blobs[h]]
                ELSE blobs
    /\ UNCHANGED <<snapshots, tool_ledger, calls>>

GetRead(p) ==
    /\ pc[p] = "read"
    /\ frame' = [frame EXCEPT ![p].ret = Deserialize(read_blob(frame[p].h))]
    /\ pc' = [pc EXCEPT ![p] = "idle"]
    /\ UNCHANGED <<snapshots, tool_ledger, blobs, calls>>

\* get(id) taken as one step on the current state
get(snapshot_id) ==
    IF snapshot_id \notin RowIds THEN ErrAbout("KeyError", snapshot_id)
    ELSE Deserialize(read_blob(RowOf(snapshot_id).state_blob_hash))

\* ---------------------------------------------------------------- last_snapshot_id()
\* line 82: ORDER BY created_at DESC LIMIT 1 -- a row no other row is newer than;
\* which one among equal timestamps is left to sqlite
\* Variant: ORDER BY created_at ASC
IsOldest(k) == \A j \in 1..Len(snapshots) : snapshots[j].created_at >= snapshots[k].created_at

IsNewest(k) == \A j \in 1..Len(snapshots) : snapshots[j].created_at <= snapshots[k].created_at

\* Variant: the test of line 85 inverted
last_snapshot_id_inverted ==
    IF snapshots = <<>> THEN {} ELSE {NoneId}

last_snapshot_id_results ==
    IF snapshots = <<>> THEN {NoneId}
    ELSE { snapshots[k].snapshot_id : k \in { j \in 1..Len(snapshots) : IsNewest(j) } }

LastSnapshotId(p) ==
    /\ pc[p] = "idle"
    /\ \E r \in last_snapshot_id_results :
           frame' = [frame EXCEPT ![p] = [IdleFrame EXCEPT !.op = "last", !.ret = Ok(r)]]
    /\ UNCHANGED <<snapshots, tool_ledger, blobs, pc, calls>>

\* ---------------------------------------------------------------- SnapshotStore(root)
\* lines 11-12: os.makedirs(..., exist_ok=True) -- a directory that exists is kept
\* with what it holds, a missing one is created empty
makedirs(exists, files) == IF exists THEN files ELSE <<>>

\* Variant: DROP TABLE, then CREATE TABLE
init_db_recreate(exists, rows) == <<>>

\* lines 18-33: CREATE TABLE IF NOT EXISTS -- a table that exists is kept with its
\* rows, a missing one is created empty
init_db(exists, rows) == IF exists THEN rows ELSE <<>>

\* lines 7-13: the store constructed again on its root (a restart); the root holds
\* index.sqlite with both tables and the blobs directory since the first construction
NewSnapshotStore(p) ==
    /\ pc[p] = "idle"
    /\ blobs' = makedirs(TRUE, blobs)
    /\ snapshots' = init_db(TRUE, snapshots)
    /\ tool_ledger' = init_db(TRUE, tool_ledger)
    /\ frame' = [frame EXCEPT ![p] = [IdleFrame EXCEPT !.op = "init", !.ret = Ok(NoneId)]]
    /\ UNCHANGED <<pc, calls>>

\* ---------------------------------------------------------------- specifications
SnapshotStep(p) ==
    \/ \E state \in AgentStates, parent \in Parents : SnapshotCall(p, state, parent)
    \/ BlobExists(p)
    \/ BlobOpen(p)
    \/ BlobWrite(p)
    \/ BlobClose(p)
    \/ \E id \in Ids, now \in Times : InsertSnapshot(p, id, now)
    \/ InsertLedger(p)
    \/ Commit(p)

ReadStep(p) ==
    \/ \E id \in Ids : GetLookup(p, id)
    \/ GetRead(p)
    \/ LastSnapshotId(p)

\* Two callers inside snapshot() and a third reading, their steps interleaved;
\* every call runs to its end
RaceNext ==
    \/ \E p \in Writers : SnapshotStep(p)
    \/ \E p \in Writers : InsertBusy(p)
    \/ \E p \in Readers : ReadStep(p)

RaceSpec == Init /\ [][RaceNext]_vars

\* The same, and any snapshot() call can be cut short
Next ==
    \/ \E p \in Writers : SnapshotStep(p)
    \/ \E p \in Writers : InsertBusy(p)
    \/ \E p \in Writers : Fail(p)
    \/ \E p \in Readers : ReadStep(p)

Spec == Init /\ [][Next]_vars

\* One caller: every operation runs to its end, or to its failure, before the next;
\* between two operations the store can be constructed again on its root
SeqNext ==
    \/ \E p \in SeqProcs : SnapshotStep(p)
    \/ \E p \in SeqProcs : Fail(p)
    \/ \E p \in SeqProcs : ReadStep(p)
    \/ \E p \in SeqProcs : NewSnapshotStore(p)

SeqSpec == Init /\ [][SeqNext]_vars

\* ================================================================ properties
SnapshotReturned(p) == pc[p] = "idle" /\ frame[p].op = "snapshot" /\ IsOk(frame[p].ret)
SnapshotFailed(p) ==
    pc[p] = "idle" /\ frame[p].op = "snapshot" /\ frame[p].ret.kind \notin {"ok", "none"}

TextOfDigest(d) == CHOOSE t \in Texts : sha256_text(t) = d
RowsUnder(id) == { i \in 1..Len(tool_ledger) : tool_ledger[i].snapshot_id = id }
IsPrefix(s, t) == Len(s) <= Len(t) /\ \A i \in 1..Len(s) : s[i] = t[i]

\* C1: round trip -- once snapshot(S) has returned id s, get(s) gives the value
\* that parsing S's serialized text gives, whatever the store held before.
C1_RoundTrip ==
    \A p \in Procs :
        SnapshotReturned(p) =>
            get(frame[p].ret.val) = json_loads(to_json(frame[p].state))

C3_State ==
    \A p \in Procs :
        SnapshotReturned(p) =>
            LET n == Len(snapshots) IN
            /\ snapshots[n].snapshot_id = frame[p].ret.val
            /\ \A k \in 1..(n - 1) :
                  snapshots[k].state_hash = sha256_text(to_json(frame[p].state)) =>
                      /\ snapshots[n].state_blob_hash = snapshots[k].state_blob_hash
                      /\ snapshots[n].snapshot_id # snapshots[k].snapshot_id
                      /\ ~frame[p].opened

C3_Action ==
    /\ Cardinality(DOMAIN blobs' \ DOMAIN blobs) <= 1
    /\ \A h \in DOMAIN blobs' \ DOMAIN blobs :
          \E p \in Procs : pc[p] = "open" /\ frame[p].h = h /\ ~frame[p].opened
    /\ \A h \in DOMAIN blobs :
          /\ h \in DOMAIN blobs'
          /\ blobs'[h] # blobs[h] =>
                \E p \in Procs :
                    frame[p].opened /\ frame[p].h = h /\ pc[p] \in {"write", "close"}

\* C3: deduplication -- a snapshot() of a text some earlier row already stores gets
\* that row's state_blob_hash and a different snapshot_id, and writes nothing to
\* the blob directory; a call creates a blob file only at its one open, so at most
\* one.
C3_Dedup == []C3_State /\ [][C3_Action]_vars

C3_Witness ==
    \E p \in Procs :
        /\ SnapshotReturned(p)
        /\ Len(snapshots) = 2
        /\ snapshots[1].state_hash = snapshots[2].state_hash
        /\ ~frame[p].opened
        /\ Cardinality(DOMAIN blobs) = 1

C4_State ==
    /\ \A i \in 1..Len(tool_ledger) : tool_ledger[i].snapshot_id \in RowIds
    /\ \A p \in Procs :
          SnapshotReturned(p) =>
              Cardinality(RowsUnder(frame[p].ret.val)) = Len(frame[p].state.tool_ledger)

C4_Action ==
    (snapshots' # snapshots \/ tool_ledger' # tool_ledger) =>
        \E p \in Procs :
            LET k == Len(frame[p].state.tool_ledger)
                n == Len(snapshots)
                m == Len(tool_ledger)
            IN /\ pc[p] = "ledger"
               /\ Len(snapshots') = n + 1
               /\ IsPrefix(snapshots, snapshots')
               /\ snapshots'[n + 1].snapshot_id = frame[p].snap_id
               /\ Len(tool_ledger') = m + k
               /\ IsPrefix(tool_ledger, tool_ledger')
               /\ \A i \in 1..k : tool_ledger'[m + i].snapshot_id = frame[p].snap_id

\* C4: all or nothing -- the index never shows a ledger row whose snapshot row is
\* missing, nor a snapshot row short of its ledger rows: every change of the two
\* tables is one snapshot row together with all k ledger rows of its state.
C4_AllOrNothing == []C4_State /\ [][C4_Action]_vars

C4_Witness ==
    \E p \in Writers, r \in Readers :
        /\ pc[p] = "ledger"
        /\ Len(frame[p].pend) = 2
        /\ pc[r] = "idle"
        /\ frame[r].op = "get"
        /\ frame[r].snap_id = frame[p].snap_id
        /\ frame[r].ret.kind = "KeyError"
        /\ Len(snapshots) = 1

\* C5: with two snapshot() calls racing, get() of every committed id gives the
\* whole serialized state of that snapshot, at every point after the commit.
C5_RaceSafe ==
    \A k \in 1..Len(snapshots) :
        get(snapshots[k].snapshot_id) = json_loads(TextOfDigest(snapshots[k].state_hash))

SameFields(row, id, tc) ==
    /\ row.snapshot_id = id
    /\ row.name = tc.name
    /\ row.in_hash = tc.in_hash
    /\ row.out_hash = tc.out_hash
    /\ row.status = tc.status
    /\ row.latency_ms = tc.latency_ms
    /\ row.url = tc.url
    /\ row.created_at = tc.created_at

IsUnder(id, row) == row.snapshot_id = id

C6_State ==
    \A p \in Procs :
        SnapshotReturned(p) =>
            LET id == frame[p].ret.val
                calls_in == frame[p].state.tool_ledger
                rows == SelectSeq(tool_ledger, LAMBDA row : IsUnder(id, row))
            IN /\ Len(rows) = Len(calls_in)
               /\ \A i \in 1..Len(rows) : SameFields(rows[i], id, calls_in[i])

C6_Action ==
    \A p \in Procs :
        (frame[p].op = "snapshot" /\ pc[p] # "idle") =>
            IF pc'[p] = "idle" /\ IsOk(frame'[p].ret)
            THEN LET calls_in == frame[p].state.tool_ledger
                     m == Len(tool_ledger)
                 IN /\ Len(tool_ledger') = m + Len(calls_in)
                    /\ IsPrefix(tool_ledger, tool_ledger')
                    /\ \A i \in 1..Len(calls_in) :
                          SameFields(tool_ledger'[m + i], frame'[p].ret.val, calls_in[i])
            ELSE tool_ledger' = tool_ledger

\* C6: ledger fidelity -- a snapshot() that returns id s for a state with k tool
\* calls appends exactly k tool_ledger rows, all under s, the i-th with the seven
\* fields of the i-th call; no other step of the call adds a ledger row.
C6_LedgerFidelity == []C6_State /\ [][C6_Action]_vars

C6_Witness ==
    \E p \in Procs :
        /\ SnapshotReturned(p)
        /\ Len(frame[p].state.tool_ledger) = 2
        /\ Len(tool_ledger) = 3
        /\ tool_ledger[2].name # tool_ledger[3].name

LastReturned(p) == pc[p] = "idle" /\ frame[p].op = "last"

Increasing ==
    \A k \in 1..(Len(snapshots) - 1) : snapshots[k].created_at < snapshots[k + 1].created_at

\* C7: recency -- on a store with rows, last_snapshot_id() returns the id of a row
\* whose created_at no row exceeds; when the rows' timestamps strictly increase in
\* insertion order it is the id of the last row.
C7_Recency ==
    \A p \in Procs :
        (LastReturned(p) /\ snapshots # <<>>) =>
            LET r == frame[p].ret.val IN
            /\ r \in RowIds
            /\ \A k \in 1..Len(snapshots) : snapshots[k].created_at <= RowOf(r).created_at
            /\ Increasing => r = snapshots[Len(snapshots)].snapshot_id

C7_Witness ==
    \E p \in Procs :
        /\ LastReturned(p)
        /\ Len(snapshots) = 2
        /\ Increasing
        /\ frame[p].ret.val = snapshots[2].snapshot_id

\* C8: in a sequential run, right after snapshot() returned id s,
\* last_snapshot_id() returns s and nothing else.
C8_LastIsJustStored ==
    \A p \in Procs :
        SnapshotReturned(p) => last_snapshot_id_results = {frame[p].ret.val}

\* get(id) as it would go on the tables rows and the blob directory files
GetOn(rows, files, id) ==
    LET at == { k \in 1..Len(rows) : rows[k].snapshot_id = id } IN
    IF at = {} THEN ErrAbout("KeyError", id)
    ELSE LET h == rows[CHOOSE k \in at : TRUE].state_blob_hash IN
         IF h \notin DOMAIN files THEN Err("FileNotFoundError")
         ELSE IF ~IsWholeGzip(files[h]) THEN Err("BadGzipFile")
         ELSE Deserialize(Ok(files[h][1].bytes))

C9_Action ==
    /\ IsPrefix(snapshots, snapshots')
    /\ IsPrefix(tool_ledger, tool_ledger')
    /\ \A h \in DOMAIN blobs :
          /\ h \in DOMAIN blobs'
          /\ blobs'[h] # blobs[h] =>
                /\ \A k \in 1..Len(snapshots) : snapshots[k].state_blob_hash # h
                /\ \E p \in Procs :
                      pc[p] \in {"write", "close"} /\ frame[p].h = h /\ frame[p].opened
    /\ \A id \in RowIds : GetOn(snapshots', blobs', id) = get(id)

GetReturned(p) == pc[p] = "idle" /\ frame[p].op = "get"

C10_State ==
    \A p \in Procs :
        (GetReturned(p) /\ frame[p].snap_id \notin RowIds) =>
            frame[p].ret = ErrAbout("KeyError", frame[p].snap_id)

C10_Action ==
    \A p \in Procs :
        (pc[p] = "idle" /\ frame'[p].op = "get" /\ frame'[p] # frame[p]) =>
            /\ UNCHANGED <<snapshots, tool_ledger, blobs>>
            /\ frame'[p].snap_id \notin RowIds =>
                  pc'[p] = "idle" /\ frame'[p].ret.kind = "KeyError"

\* C10: get(id) of an id without a row raises KeyError naming the id, returns no
\* value, reads no blob, and leaves both tables and the blob directory as they were.
C10_MissingId == []C10_State /\ [][C10_Action]_vars

C10_Witness ==
    \E p \in Procs :
        /\ GetReturned(p)
        /\ frame[p].snap_id \notin RowIds
        /\ frame[p].ret.kind = "KeyError"
        /\ Len(snapshots) = 1

\* C11: lineage -- the row a snapshot(S, parent=P) call stores carries P verbatim
\* (None when omitted), whether or not a row with id P exists; the only id the
\* index ever rejects is the call's own fresh id when it is already a row's.
C11_State ==
    \A p \in Procs :
        /\ SnapshotReturned(p) =>
               /\ frame[p].ret.val \in RowIds
               /\ RowOf(frame[p].ret.val).parent_snapshot_id = frame[p].parent
        /\ (SnapshotFailed(p) /\ frame[p].ret.kind = "IntegrityError") =>
               frame[p].ret.val \in RowIds

C11_Action ==
    \A p \in Procs :
        (pc[p] = "ledger" /\ pc'[p] = "idle" /\ IsOk(frame'[p].ret)) =>
            /\ Len(snapshots') = Len(snapshots) + 1
            /\ snapshots'[Len(snapshots')].parent_snapshot_id = frame[p].parent

C11_Lineage == []C11_State /\ [][C11_Action]_vars

\* a call with a parent that no row carries has returned
C11_Witness ==
    \E p \in Procs :
        /\ SnapshotReturned(p)
        /\ frame[p].parent = 1
        /\ RowIds = {2}

\* C12: snapshot ids are unique -- the index never holds two rows with the same
\* snapshot_id, and two callers that both have an id returned hold different ids,
\* each the id of exactly one row.
C12_UniqueIds ==
    /\ \A i, j \in 1..Len(snapshots) :
           snapshots[i].snapshot_id = snapshots[j].snapshot_id => i = j
    /\ \A p \in Procs :
           SnapshotReturned(p) =>
               Cardinality({ k \in 1..Len(snapshots) :
                                snapshots[k].snapshot_id = frame[p].ret.val }) = 1
    /\ \A p, q \in Procs :
           (p # q /\ SnapshotReturned(p) /\ SnapshotReturned(q)) =>
               frame[p].ret.val # frame[q].ret.val

\* two concurrent calls on equal states have both returned
C12_Witness ==
    /\ SnapshotReturned(1) /\ SnapshotReturned(2)
    /\ frame[1].state = frame[2].state
    /\ Len(snapshots) = 2

\* C13: no partial success -- a finished call holds either a result or exactly
\* one error; a snapshot() call that ended with an error has added no snapshot row
\* and no ledger row: the step that ends it leaves both tables as they were, no
\* earlier step of it changed them, and afterwards no row carries the id it drew.
C13_State ==
    \A p \in Procs :
        /\ (pc[p] = "idle" /\ frame[p].op # "none") =>
               frame[p].ret.kind # "none"
        /\ SnapshotReturned(p) =>
               /\ frame[p].ret.val \in RowIds
               /\ Cardinality(RowsUnder(frame[p].ret.val)) = Len(frame[p].state.tool_ledger)
        /\ SnapshotFailed(p) =>
               /\ frame[p].snap_id \notin RowIds
               /\ RowsUnder(frame[p].snap_id) = {}

C13_Action ==
    \A p \in Procs :
        /\ (InSnapshot(p) /\ pc'[p] = "idle" /\ ~IsOk(frame'[p].ret)) =>
               UNCHANGED <<snapshots, tool_ledger>>
        /\ (InSnapshot(p) /\ pc'[p] # "idle") =>
               UNCHANGED <<snapshots, tool_ledger>>

C13_NoPartialSuccess == []C13_State /\ [][C13_Action]_vars

\* a call failed after its INSERT INTO snapshots, on a store that holds a row
C13_Witness ==
    \E p \in Procs :
        /\ SnapshotFailed(p)
        /\ frame[p].ret.kind = "IOFailure"
        /\ frame[p].snap_id # NoneId
        /\ Len(snapshots) = 1

\* C14: empty store -- last_snapshot_id() never raises, and the result it returns
\* is None exactly when the index holds no snapshot row (so None on a fresh store).
C14_EmptyStore ==
    \A p \in Procs :
        LastReturned(p) =>
            /\ IsOk(frame[p].ret)
            /\ (frame[p].ret.val = NoneId) <=> (snapshots = <<>>)

\* last_snapshot_id() has returned None on a store without rows; a failed
\* snapshot() has left a blob file there
C14_Witness ==
    \E p \in Procs :
        /\ LastReturned(p)
        /\ frame[p].ret = Ok(NoneId)
        /\ snapshots = <<>>
        /\ DOMAIN blobs # {}

UnderIn(ledger, id) == { i \in 1..Len(ledger) : ledger[i].snapshot_id = id }

\* the calls of ledger_in are stored, in order, as the rows under id
StoredUnder(id, ledger_in) ==
    LET rows == SelectSeq(tool_ledger, LAMBDA row : IsUnder(id, row))
    IN /\ Len(rows) = Len(ledger_in)
       /\ \A i \in 1..Len(rows) : SameFields(rows[i], id, ledger_in[i])

\* C15: ledger rows are never shared or deduplicated -- every ledger row carries
\* the id of exactly one snapshot row and has a row id of its own; and when a state
\* that is already stored (same serialized text, same k tool calls) is stored again,
\* the commit adds k more ledger rows, all under the new id, keeps the k rows under
\* the earlier id, and adds no blob file.
C15_State ==
    /\ \A i \in 1..Len(tool_ledger) :
           Cardinality({ k \in 1..Len(snapshots) :
                            snapshots[k].snapshot_id = tool_ledger[i].snapshot_id }) = 1
    /\ \A i, j \in 1..Len(tool_ledger) : tool_ledger[i].id = tool_ledger[j].id => i = j
    /\ Cardinality({ tool_ledger[i].snapshot_id : i \in 1..Len(tool_ledger) })
           <= Len(snapshots)

C15_Action ==
    \A p \in Procs :
        (pc[p] = "ledger" /\ pc'[p] = "idle" /\ IsOk(frame'[p].ret)) =>
            \A r \in 1..Len(snapshots) :
                (/\ snapshots[r].state_hash = frame[p].state_hash
                 /\ StoredUnder(snapshots[r].snapshot_id, frame[p].state.tool_ledger)) =>
                    LET k == Len(frame[p].state.tool_ledger)
                        old == snapshots[r].snapshot_id
                        new == frame'[p].ret.val
                    IN /\ new # old
                       /\ Len(tool_ledger') = Len(tool_ledger) + k
                       /\ Cardinality(UnderIn(tool_ledger', new)) = k
                       /\ UnderIn(tool_ledger', old) = UnderIn(tool_ledger, old)
                       /\ Cardinality(UnderIn(tool_ledger', old)) = k
                       /\ snapshots'[Len(snapshots')].state_blob_hash
                              = snapshots[r].state_blob_hash
                       /\ blobs' = blobs

C15_LedgerNotShared == []C15_State /\ [][C15_Action]_vars

\* one state with two tool calls stored twice: two ids, four ledger rows, one blob
C15_Witness ==
    /\ Len(snapshots) = 2
    /\ snapshots[1].state_hash = snapshots[2].state_hash
    /\ Cardinality(DOMAIN blobs) = 1
    /\ Len(tool_ledger) = 4
    /\ \A k \in 1..2 : Cardinality(RowsUnder(snapshots[k].snapshot_id)) = 2
    /\ \A i \in 1..2 : [tool_ledger[i] EXCEPT !.id = 0, !.snapshot_id = 0]
                           = [tool_ledger[i + 2] EXCEPT !.id = 0, !.snapshot_id = 0]

LastOn(rows) ==
    IF rows = <<>> THEN {NoneId}
    ELSE { rows[k].snapshot_id :
             k \in { j \in 1..Len(rows) :
                       \A i \in 1..Len(rows) : rows[i].created_at <= rows[j].created_at } }

\* C16: constructing the store again on a root that holds data changes no
\* snapshot row, no ledger row and no blob file: get() of every id gives what it
\* gave before the restart and last_snapshot_id() has the same results.
C16_Action ==
    \A p \in Procs :
        (pc[p] = "idle" /\ frame'[p].op = "init") =>
            /\ UNCHANGED <<snapshots, tool_ledger, blobs>>
            /\ \A id \in Ids : GetOn(snapshots', blobs', id) = get(id)
            /\ LastOn(snapshots') = last_snapshot_id_results

C16_RestartKeepsData == [][C16_Action]_vars

\* the store was constructed again on a root with two snapshot rows, ledger rows
\* and a blob that get() reads back
C16_Witness ==
    \E p \in Procs :
        /\ pc[p] = "idle" /\ frame[p].op = "init"
        /\ Len(snapshots) = 2
        /\ Len(tool_ledger) >= 1
        /\ \E id \in RowIds : IsOk(get(id))

BlobIsSound(h) ==
    /\ IsWholeGzip(blobs[h])
    /\ sha256_text(Utf8DecodeIgnore(blobs[h][1].bytes)) = h

BeingWritten(h) ==
    \E p \in Procs : pc[p] \in {"write", "close"} /\ frame[p].h = h /\ frame[p].opened

\* C17: content-address integrity -- every file in the blob directory that no
\* running call is in the middle of writing decompresses to a payload whose digest
\* is the digest in its name (it is never partial and never holds other content),
\* also after a write was cut short and with concurrent writers.
C17_BlobIntegrity ==
    \A h \in DOMAIN blobs : ~BeingWritten(h) => BlobIsSound(h)

\* a step of get() or of last_snapshot_id() by caller p
IsReadStepOf(p) ==
    /\ \/ pc[p] = "read"
       \/ pc[p] = "idle" /\ frame'[p].op \in {"get", "last"}
    /\ frame'[p] # frame[p] \/ pc'[p] # pc[p]

\* C18: the reads are pure -- every step of get(id), whether the call ends with a
\* value or with an error, and every step of last_snapshot_id() leaves the
\* snapshot rows, the ledger rows and the blob files with their contents unchanged.
C18_Action ==
    \A p \in Procs :
        IsReadStepOf(p) => UNCHANGED <<snapshots, tool_ledger, blobs>>

C18_ReadsArePure == [][C18_Action]_vars

\* get() of a stored id has failed on a blob that does not decompress; the rows
\* and the damaged file are still there
C18_Witness ==
    \E p \in Procs :
        /\ GetReturned(p)
        /\ frame[p].ret.kind = "BadGzipFile"
        /\ frame[p].snap_id \in RowIds
        /\ frame[p].h \in DOMAIN blobs
        /\ RowsUnder(frame[p].snap_id) # {}

\* C19: in every snapshot row state_hash equals state_blob_hash, both the digest
\* of the serialized text of the stored state; a running call holds the same
\* digest for the text and for its UTF-8 encoding decoded back to text.
C19_HashesAgree ==
    /\ \A k \in 1..Len(snapshots) :
           /\ snapshots[k].state_hash = snapshots[k].state_blob_hash
           /\ \E t \in Texts : snapshots[k].state_hash = sha256_text(t)
    /\ \A p \in Procs :
           InSnapshot(p) =>
               /\ frame[p].state_hash = sha256_text(to_json(frame[p].state))
               /\ frame[p].h = frame[p].state_hash
               /\ Utf8DecodeIgnore(frame[p].data) = to_json(frame[p].state)

\* a row for a text with a character outside ASCII, encoded in two bytes
C19_Witness ==
    \E k \in 1..Len(snapshots) :
        /\ snapshots[k].state_hash = sha256_text(<<34, 233, 34>>)
        /\ snapshots[k].state_blob_hash \in DOMAIN blobs
        /\ IsWholeGzip(blobs[snapshots[k].state_blob_hash])
        /\ Len(blobs[snapshots[k].state_blob_hash][1].bytes) = 4

====
